---- MODULE Spec2Model ----
(***************************************************************************)
(* Model of linter-glslify (src/src/linter-glslify.ts): the shader         *)
(* filename classifier extractShaderFilenameTokens and the validator       *)
(* output parser parseGlslValidatorResponse.  A string is the sequence of   *)
(* its UTF-16 code units and a number an IEEE 754 double; a regular        *)
(* expression of the source is an operator that computes the match and     *)
(* its groups.                                                             *)
(***************************************************************************)
EXTENDS Integers, Sequences, FiniteSets, TLC

VARIABLES
    pc,             \* position: "call" | "scan" | "resolved" | "classify" | "tokens" | "thrown"
    inputs,         \* parse: the Shader[] argument
    output,         \* parse: the validator's stdout
    firstRowRange,  \* parse: the range given for link diagnostics
    lines,          \* output.split(os.EOL)
    si,             \* index of the shader being scanned (forEach over inputs)
    li,             \* number of lines already scanned for that shader
    compileStarted, \* the section flag of the shader being scanned
    toReturn,       \* the LintResult[] being built
    origin,         \* history: for each element of toReturn, the shader, line and branch that pushed it
    shaderFilename, \* classify: the argument of extractShaderFilenameTokens
    tokens          \* classify: the ShaderTokens returned

vars == <<pc, inputs, output, firstRowRange, lines, si, li, compileStarted,
          toReturn, origin, shaderFilename, tokens>>

parseVars == <<inputs, output, firstRowRange, lines, si, li, compileStarted,
               toReturn, origin>>

(***************************************************************************)
(* Bounds of the model.                                                    *)
(***************************************************************************)
MaxShaders == 2
MaxLines == 3

(***************************************************************************)
(* Strings.  A string of the program is the sequence of its UTF-16 code    *)
(* units, each a number of 0..65535.                                       *)
(***************************************************************************)
\* The characters U+0020..U+005F and U+0061..U+007E, in the order of their
\* codes.
AsciiTo95 == " !\"#$%&'()*+,-./0123456789:;<=>?@ABCDEFGHIJKLMNOPQRSTUVWXYZ[\\]^_"
AsciiFrom97 == "abcdefghijklmnopqrstuvwxyz{|}~"

\* The code unit of each of these characters.
AsciiCode ==
    [c \in {SubSeq(AsciiTo95, k, k) : k \in 1..Len(AsciiTo95)}
             \cup {SubSeq(AsciiFrom97, k, k) : k \in 1..Len(AsciiFrom97)} |->
        IF \E k \in 1..Len(AsciiTo95) : SubSeq(AsciiTo95, k, k) = c
        THEN 31 + CHOOSE k \in 1..Len(AsciiTo95) : SubSeq(AsciiTo95, k, k) = c
        ELSE 96 + CHOOSE k \in 1..Len(AsciiFrom97) : SubSeq(AsciiFrom97, k, k) = c]

\* The code unit of the character written c.
Unit(c) == AsciiCode[c]

\* The string of the program that the literal s writes; a code unit outside
\* the two ranges is written as its number, as in Str("a") \o <<8232>>.
RECURSIVE Str(_)
Str(s) == IF s = "" THEN <<>> ELSE <<Unit(SubSeq(s, 1, 1))>> \o Str(SubSeq(s, 2, Len(s)))

Char(s, i) == s[i]

Last(s) == s[Len(s)]

EndsWith(s, t) ==
    /\ Len(t) <= Len(s)
    /\ SubSeq(s, Len(s) - Len(t) + 1, Len(s)) = t

StartsWithAt(s, i, t) ==
    /\ i + Len(t) - 1 <= Len(s)
    /\ SubSeq(s, i, i + Len(t) - 1) = t

\* The least and the greatest number of a non-empty set of indices.
Least(S) == CHOOSE i \in S : \A j \in S : i <= j
Greatest(S) == CHOOSE i \in S : \A j \in S : i >= j

\* The first index >= i of s whose code unit is not in S, Len(s) + 1 when
\* there is none.
SkipWhile(s, i, S) ==
    LET stop == {j \in i..Len(s) : s[j] \notin S}
    IN  IF stop = {} THEN (IF i > Len(s) THEN i ELSE Len(s) + 1) ELSE Least(stop)

\* First index >= from at which t occurs in s, 0 when there is none.
IndexOf(s, t, from) ==
    LET found == {j \in from..(Len(s) - Len(t) + 1) :
                     (Len(t) = 0 \/ s[j] = t[1]) /\ StartsWithAt(s, j, t)}
    IN  IF found = {} THEN 0 ELSE Least(found)

Digits == Unit("0")..Unit("9")

LowerLetters == Unit("a")..Unit("z")

UpperLetters == Unit("A")..Unit("Z")

\* \w of a JavaScript regular expression without the u and i flags.
WordChars == LowerLetters \cup UpperLetters \cup Digits \cup {Unit("_")}

\* The line terminators, which . of a JavaScript regular expression without
\* the s flag excludes: U+000A, U+000D, U+2028 and U+2029.
LineTerminators == {10, 13, 8232, 8233}

\* (.*) matches s exactly when s holds no line terminator.
DotStar(s) == \A i \in 1..Len(s) : s[i] \notin LineTerminators

\* The code units String.prototype.trim removes, the WhiteSpace and
\* LineTerminator of ECMAScript: U+0009..U+000D, U+0020, U+00A0, U+1680,
\* U+2000..U+200A, U+2028, U+2029, U+202F, U+205F, U+3000 and U+FEFF.
WhiteSpace ==
    (9..13) \cup {32, 160, 5760} \cup (8192..8202)
        \cup {8232, 8233, 8239, 8287, 12288, 65279}

\* toLowerCase of one code unit of U+0000..U+007F.
LowerOf(c) == IF c \in UpperLetters THEN c + (Unit("a") - Unit("A")) ELSE c

\* String.prototype.toLowerCase of a string of code units of
\* U+0000..U+007F, which group 1 of both patterns, a string of [\w \-], is.
toLowerCase(s) == [i \in 1..Len(s) |-> LowerOf(s[i])]

trim(s) ==
    LET keep == {i \in 1..Len(s) : s[i] \notin WhiteSpace}
    IN  IF keep = {} THEN <<>>
        ELSE SubSeq(s, Least(keep), Greatest(keep))

\* os.EOL of a POSIX host, U+000A.
EOL == <<10>>

\* String.prototype.split: an empty separator splits between the code units.
RECURSIVE Split(_, _)
Split(s, sep) ==
    LET i == IndexOf(s, sep, 1)
    IN  IF Len(sep) = 0 THEN [k \in 1..Len(s) |-> <<s[k]>>]
        ELSE IF i = 0 THEN <<s>>
        ELSE <<SubSeq(s, 1, i - 1)>> \o Split(SubSeq(s, i + Len(sep), Len(s)), sep)

RECURSIVE Join(_, _)
Join(ls, sep) ==
    IF Len(ls) = 0 THEN <<>>
    ELSE IF Len(ls) = 1 THEN ls[1]
    ELSE ls[1] \o sep \o Join(Tail(ls), sep)

(***************************************************************************)
(* Numbers.  A number of the program is an IEEE 754 double.  Those that    *)
(* arise are Infinity and the doubles that are non-negative integers; such *)
(* an integer is the sequence of its decimal digits, the most significant  *)
(* first, without leading zeros: 13 is <<1, 3>>.                           *)
(***************************************************************************)
Infinity == <<-1>>

Zero == <<0>>

\* The number n of 0..2147483647.
RECURSIVE Num(_)
Num(n) == IF n < 10 THEN <<n>> ELSE Append(Num(n \div 10), n % 10)

\* The digits d without their leading zeros.
Normal(d) ==
    LET nonZero == {i \in 1..Len(d) : d[i] # 0}
    IN  IF nonZero = {} THEN Zero ELSE SubSeq(d, Least(nonZero), Len(d))

\* a < b, of two integers.
Less(a, b) ==
    \/ Len(a) < Len(b)
    \/ /\ Len(a) = Len(b)
       /\ \E i \in 1..Len(a) : a[i] < b[i] /\ \A j \in 1..(i - 1) : a[j] = b[j]

\* d - 1 of a positive integer and d + 1 of an integer, exactly.
Pred(d) ==
    LET k == Greatest({i \in 1..Len(d) : d[i] # 0})
    IN  Normal([i \in 1..Len(d) |->
                   IF i < k THEN d[i] ELSE IF i = k THEN d[i] - 1 ELSE 9])

Succ(d) ==
    LET below9 == {i \in 1..Len(d) : d[i] # 9}
        k == IF below9 = {} THEN 0 ELSE Greatest(below9)
    IN  IF k = 0 THEN <<1>> \o [i \in 1..Len(d) |-> 0]
        ELSE [i \in 1..Len(d) |->
                 IF i < k THEN d[i] ELSE IF i = k THEN d[i] + 1 ELSE 0]

Odd(d) == Last(d) % 2 = 1

\* d \div 2 and 2 * d of an integer, exactly.
HalfOf(d) ==
    Normal([i \in 1..Len(d) |->
               (d[i] + (IF i > 1 /\ d[i - 1] % 2 = 1 THEN 10 ELSE 0)) \div 2])

TwiceOf(d) ==
    Normal([i \in 1..(Len(d) + 1) |->
               ((IF i = 1 THEN 0 ELSE 2 * d[i - 1])
                   + (IF i <= Len(d) /\ d[i] >= 5 THEN 1 ELSE 0)) % 10])

\* The integer q * 2^e with what rounding needs to know of the binary
\* digits dropped from it: round is the last digit dropped, sticky tells
\* whether a 1 was dropped before it.
Float(q, e) == [q |-> q, e |-> e, round |-> FALSE, sticky |-> FALSE]

\* One binary digit dropped, and one binary digit 0 added.
Halved(f) ==
    [q |-> HalfOf(f.q), e |-> f.e + 1, round |-> Odd(f.q),
     sticky |-> f.sticky \/ f.round]

Doubled(f) ==
    [q |-> TwiceOf(f.q), e |-> f.e - 1, round |-> f.round, sticky |-> f.sticky]

\* Up to n binary digits 0 added, until the exponent is 0.
RECURSIVE Added(_, _)
Added(f, n) == IF n = 0 \/ f.e = 0 THEN f ELSE Added(Doubled(f), n - 1)

\* The integer that f writes.
RECURSIVE Integer(_)
Integer(f) == IF f.e = 0 THEN f.q ELSE Integer(Added(f, 32))

\* 2^53: from there on not every integer is a double.
TwoTo53 == Integer(Float(<<1>>, 53))

\* Up to n binary digits dropped, until the integer is below 2^53.
RECURSIVE Dropped(_, _)
Dropped(f, n) ==
    IF n = 0 \/ Less(f.q, TwoTo53) THEN f ELSE Dropped(Halved(f), n - 1)

\* f with a significand below 2^53.
RECURSIVE Significand(_)
Significand(f) ==
    IF Less(f.q, TwoTo53) THEN f ELSE Significand(Dropped(f, 32))

\* The double nearest to the integer d, ties to the even significand: d
\* itself below 2^53, Infinity from 2^1024 - 2^970 on (no integer of more
\* than 309 digits is below that).
ToDouble(d) ==
    IF Less(d, TwoTo53) THEN d
    ELSE IF Len(d) > 309 THEN Infinity
    ELSE LET f == Significand(Float(d, 0))
             q == IF f.round /\ (f.sticky \/ Odd(f.q)) THEN Succ(f.q) ELSE f.q
         IN  IF f.e > 971 \/ (f.e = 971 /\ q = TwoTo53) THEN Infinity
             ELSE Integer(Float(q, f.e))

\* parseInt(s, 10) of a non-empty string of decimal digits.
parseInt(s) == ToDouble(Normal([i \in 1..Len(s) |-> s[i] - Unit("0")]))

\* n > 0 and n - 1 of a number n; n - 1 is taken of a positive n only.
Positive(n) == n # Zero

MinusOne(n) == IF n = Infinity THEN Infinity ELSE ToDouble(Pred(n))

(***************************************************************************)
(* Shader types.                                                           *)
(***************************************************************************)
VALID_SEVERITY == <<Str("error"), Str("warning"), Str("info")>>

\* A type without a char1 alias has no char1 field.
shaderTypes ==
    << [char1 |-> Str("v"), char2 |-> Str("vs"), char4 |-> Str("vert"), name |-> Str("vertex")],
       [char1 |-> Str("f"), char2 |-> Str("fs"), char4 |-> Str("frag"), name |-> Str("fragment")],
       [char1 |-> Str("g"), char2 |-> Str("gs"), char4 |-> Str("geom"), name |-> Str("geometry")],
       [char2 |-> Str("te"), char4 |-> Str("tese"), name |-> Str("tessellation evaluation")],
       [char2 |-> Str("tc"), char4 |-> Str("tesc"), name |-> Str("tessellation control")],
       [char2 |-> Str("cs"), char4 |-> Str("comp"), name |-> Str("compute")] >>

\* Line 91: the severity of an unknown word.
Warning == Str("warning")

\* getSeverity without toLowerCase.
getSeverityCaseSensitive(givenSeverity) ==
    IF \E i \in 1..Len(VALID_SEVERITY) : VALID_SEVERITY[i] = givenSeverity
    THEN givenSeverity
    ELSE Warning

getSeverity(givenSeverity) ==
    LET severity == toLowerCase(givenSeverity)
    IN  IF \E i \in 1..Len(VALID_SEVERITY) : VALID_SEVERITY[i] = severity
        THEN severity
        ELSE Warning

HasField(shaderType, fieldName, fieldValue) ==
    /\ fieldName \in DOMAIN shaderType
    /\ shaderType[fieldName] = fieldValue

\* filter(...)[0]: the first type whose field equals the value.
shaderTypeLookup(fieldName, fieldValue) ==
    LET found == {i \in 1..Len(shaderTypes) :
                     HasField(shaderTypes[i], fieldName, fieldValue)}
    IN  shaderTypes[CHOOSE i \in found : \A j \in found : i <= j]

shaderByChar1(char1) == shaderTypeLookup("char1", char1)
shaderByChar2(char2) == shaderTypeLookup("char2", char2)
shaderByChar4(char4) == shaderTypeLookup("char4", char4)

(***************************************************************************)
(* The classifier: extractShaderFilenameTokens.                            *)
(***************************************************************************)
\* path.basename(p) of a POSIX host: trailing slashes dropped, then the text
\* after the last slash.
basename(p) ==
    LET nonSlash == {i \in 1..Len(p) : p[i] # Unit("/")}
    IN  IF nonSlash = {} THEN Str("")
        ELSE LET end == CHOOSE i \in nonSlash : \A j \in nonSlash : i >= j
                 slashes == {i \in 1..end : p[i] = Unit("/")}
                 start == IF slashes = {} THEN 1
                          ELSE 1 + CHOOSE i \in slashes : \A j \in slashes : i >= j
             IN  SubSeq(p, start, end)

\* path.dirname(p) of a POSIX host.
dirname(p) ==
    LET hasRoot == Len(p) > 0 /\ p[1] = Unit("/")
        nonSlash == {i \in 2..Len(p) : p[i] # Unit("/")}
        lastName == IF nonSlash = {} THEN 0
                    ELSE CHOOSE i \in nonSlash : \A j \in nonSlash : i >= j
        slashes == {i \in 2..(lastName - 1) : p[i] = Unit("/")}
        end == IF slashes = {} THEN 0
               ELSE CHOOSE i \in slashes : \A j \in slashes : i >= j
    IN  IF Len(p) = 0 THEN Str(".")
        ELSE IF end = 0 THEN (IF hasRoot THEN Str("/") ELSE Str("."))
        ELSE IF hasRoot /\ end = 2 THEN Str("//")
        ELSE SubSeq(p, 1, end - 1)

NoMatch == [ok |-> FALSE]

\* exec of /^(.*S)(C)X$/ where S is one of seps, C one of codes (all of
\* length codeLen) and X the literal suffix: group 1 runs up to and
\* including the separator, group 2 is the code.
TailExec(fileName, seps, codes, codeLen, suffix) ==
    LET baseLen == Len(fileName) - Len(suffix) - codeLen
        g1 == SubSeq(fileName, 1, baseLen)
        g2 == SubSeq(fileName, baseLen + 1, baseLen + codeLen)
    IN  IF /\ baseLen >= 1
           /\ EndsWith(fileName, suffix)
           /\ g2 \in codes
           /\ Last(g1) \in seps
           /\ DotStar(g1)
        THEN [ok |-> TRUE, g1 |-> g1, g2 |-> g2]
        ELSE NoMatch

Char1 == {Str("v"), Str("g"), Str("f")}
Char2 == {Str("vs"), Str("tc"), Str("te"), Str("gs"), Str("fs"), Str("cs")}
Char4 == {Str("vert"), Str("frag"), Str("geom"), Str("tesc"), Str("tese"), Str("comp")}

char1glslRegex(fileName) == TailExec(fileName, {Unit("."), Unit("_")}, Char1, 1, Str(".glsl"))
\* char2glslRegex with "." as the only separator.
char2glslDotOnly(fileName) == TailExec(fileName, {Unit(".")}, Char2, 2, Str(".glsl"))

char2glslRegex(fileName) == TailExec(fileName, {Unit("."), Unit("_")}, Char2, 2, Str(".glsl"))
char1shRegex(fileName) == TailExec(fileName, {Unit(".")}, Char1, 1, Str("sh"))
char2Regex(fileName) == TailExec(fileName, {Unit(".")}, Char2, 2, Str(""))
defaultRegex(fileName) == TailExec(fileName, {Unit(".")}, Char4, 4, Str(""))

Dot == Str(".")

\* Lines 204-207 with the "." always added.
OutFilenameAlwaysDot(baseFilename, baseShaderType) ==
    baseFilename \o Dot \o baseShaderType.char4

\* Lines 204-207: the base, a "." added unless it ends with one, then char4.
OutFilename(baseFilename, baseShaderType) ==
    (IF ~EndsWith(baseFilename, Dot) THEN baseFilename \o Dot ELSE baseFilename)
        \o baseShaderType.char4

Thrown == [thrown |-> TRUE]

\* extractShaderFilenameTokens has not returned.
NoTokens == [pending |-> TRUE]

Tokens(baseFilename, baseShaderType, dirName, shaderFilenameArg) ==
    [thrown |-> FALSE,
     baseFilename |-> baseFilename,
     baseShaderType |-> baseShaderType,
     dirName |-> dirName,
     outFilename |-> OutFilename(baseFilename, baseShaderType),
     fullFilename |-> shaderFilenameArg]

extractShaderFilenameTokens(shaderFilenameArg) ==
    LET fileName == basename(shaderFilenameArg)
        dirName == dirname(shaderFilenameArg)
        extChar1GlslMatch == char1glslRegex(fileName)
        extChar2GlslMatch == char2glslRegex(fileName)
        extChar2Match == char2Regex(fileName)
        extChar1ShMatch == char1shRegex(fileName)
        extDefaultMatch == defaultRegex(fileName)
    IN  IF extChar1GlslMatch.ok THEN
            Tokens(extChar1GlslMatch.g1, shaderByChar1(extChar1GlslMatch.g2),
                   dirName, shaderFilenameArg)
        ELSE IF extChar2GlslMatch.ok THEN
            Tokens(extChar2GlslMatch.g1, shaderByChar2(extChar2GlslMatch.g2),
                   dirName, shaderFilenameArg)
        ELSE IF extChar1ShMatch.ok THEN
            Tokens(extChar1ShMatch.g1, shaderByChar1(extChar1ShMatch.g2),
                   dirName, shaderFilenameArg)
        ELSE IF extChar2Match.ok THEN
            Tokens(extChar2Match.g1, shaderByChar2(extChar2Match.g2),
                   dirName, shaderFilenameArg)
        ELSE IF extDefaultMatch.ok THEN
            Tokens(extDefaultMatch.g1, shaderByChar4(extDefaultMatch.g2),
                   dirName, shaderFilenameArg)
        ELSE Thrown

\* The filenames classified: directory, stem, separator, code, suffix; two
\* of the stems hold a line terminator, U+000A and U+2028.
FileDirs == {Str(""), Str("/p/"), Str("d.vert/")}
FileStems == {Str(""), Str("a"), Str("a.b"), Str("a") \o <<10>>, <<8232>> \o Str("a.")}
FileSeps == {Str("."), Str("_"), Str(".."), Str("")}
FileCodes == Char1 \cup Char2 \cup Char4 \cup {Str("txt"), Str("VERT")}
FileSuffixes == {Str(""), Str(".glsl"), Str("sh"), Str("/")}

FilenamePool ==
    {d \o b \o s \o c \o x :
        d \in FileDirs, b \in FileStems, s \in FileSeps,
        c \in FileCodes, x \in FileSuffixes}

NotParsing ==
    /\ inputs = <<>>
    /\ output = Str("")
    /\ firstRowRange = <<<<Zero, Zero>>, <<Zero, Zero>>>>
    /\ lines = <<>>
    /\ si = 0
    /\ li = 0
    /\ compileStarted = FALSE
    /\ toReturn = <<>>
    /\ origin = <<>>

InitClassify ==
    /\ pc = "classify"
    /\ shaderFilename \in FilenamePool
    /\ tokens = NoTokens
    /\ NotParsing

\* One call of extractShaderFilenameTokens.
Classify ==
    /\ pc = "classify"
    /\ tokens' = extractShaderFilenameTokens(shaderFilename)
    /\ pc' = IF tokens'.thrown THEN "thrown" ELSE "tokens"
    /\ UNCHANGED <<shaderFilename, parseVars>>

NextClassify == Classify

SpecClassify == InitClassify /\ [][NextClassify]_vars

(***************************************************************************)
(* The parser: parseGlslValidatorResponse.                                 *)
(***************************************************************************)
\* The characters of the class [\w \-].
SeverityChars == WordChars \cup {Unit(" "), Unit("-")}

Colon == Str(":")
ColonSpace == Str(": ")

\* exec of compileRegex, ^([\w \-]+): (\d+):(\d+): (.*)$ : each greedy
\* group runs to the first character outside its class, which must be the
\* literal that follows it (no class holds ":", so giving characters back
\* never helps).
compileRegex(line) ==
    LET e1 == SkipWhile(line, 1, SeverityChars)
        g1 == SubSeq(line, 1, e1 - 1)
        e2 == SkipWhile(line, e1 + 2, Digits)
        g2 == SubSeq(line, e1 + 2, e2 - 1)
        e3 == SkipWhile(line, e2 + 1, Digits)
        g3 == SubSeq(line, e2 + 1, e3 - 1)
        g4 == SubSeq(line, e3 + 2, Len(line))
    IN  IF /\ e1 > 1
           /\ StartsWithAt(line, e1, ColonSpace)
           /\ e2 > e1 + 2
           /\ StartsWithAt(line, e2, Colon)
           /\ e3 > e2 + 1
           /\ StartsWithAt(line, e3, ColonSpace)
           /\ DotStar(g4)
        THEN [ok |-> TRUE, g1 |-> g1, g2 |-> g2, g3 |-> g3, g4 |-> g4]
        ELSE NoMatch

Linking == Str(": Linking ")
Stage == Str(" stage: ")

\* exec of linkRegex with {{typeName}} replaced,
\* ^([\w \-]+): Linking <typeName> stage: (.*)$ (a stage name holds no
\* character that is special in a regular expression).
linkRegex(line, typeName) ==
    LET e1 == SkipWhile(line, 1, SeverityChars)
        g1 == SubSeq(line, 1, e1 - 1)
        literal == Linking \o typeName \o Stage
        g2 == SubSeq(line, e1 + Len(literal), Len(line))
    IN  IF /\ e1 > 1
           /\ StartsWithAt(line, e1, literal)
           /\ DotStar(g2)
        THEN [ok |-> TRUE, g1 |-> g1, g2 |-> g2]
        ELSE NoMatch

\* Line 122: the line is the shader's header.
IsHeader(line, shader) == EndsWith(line, shader.name)

\* Line 124 with the batch-of-one test passing for any batch.
CompileAppliesAnyBatch(started, inputsLength) == started \/ inputsLength >= 1

\* Line 124: the compile pattern is tried on a line that is no header.
CompileApplies(started, inputsLength) == started \/ inputsLength = 1

\* Lines 127-146 with the groups taken in the order they are written:
\* group 2 as the line, group 3 as the column.
CompilePositionSwapped(match) ==
    LET lineStart == parseInt(match.g2)
        colStart == parseInt(match.g3)
    IN  << << IF Positive(lineStart) THEN MinusOne(lineStart) ELSE Zero,
              IF Positive(colStart) THEN MinusOne(colStart) ELSE Zero >>,
           << IF Positive(lineStart) THEN MinusOne(lineStart) ELSE Zero,
              IF Positive(colStart) THEN MinusOne(colStart) ELSE Zero >> >>

\* Lines 127-146: the position of a compile diagnostic.
CompilePosition(match) ==
    LET lineStart == parseInt(match.g3)
        colStart == parseInt(match.g2)
        lineEnd == lineStart
        colEnd == colStart
    IN  << << IF Positive(lineStart) THEN MinusOne(lineStart) ELSE Zero,
              IF Positive(colStart) THEN MinusOne(colStart) ELSE Zero >>,
           << IF Positive(lineEnd) THEN MinusOne(lineEnd) ELSE Zero,
              IF Positive(colEnd) THEN MinusOne(colEnd) ELSE Zero >> >>

\* Lines 132-148.
CompileResult(shader, match) ==
    [severity |-> getSeverity(match.g1),
     excerpt |-> trim(match.g4),
     file |-> shader.fullFilename,
     position |-> CompilePosition(match)]

\* Lines 158-165 with the position fixed at the origin instead of the range.
LinkResultAtOrigin(shader, linkMatch, range) ==
    [severity |-> getSeverity(linkMatch.g1),
     excerpt |-> trim(linkMatch.g2),
     file |-> shader.fullFilename,
     position |-> <<<<Zero, Zero>>, <<Zero, Zero>>>>]

\* Lines 158-165.
LinkResult(shader, linkMatch, range) ==
    [severity |-> getSeverity(linkMatch.g1),
     excerpt |-> trim(linkMatch.g2),
     file |-> shader.fullFilename,
     position |-> range]

\* Lines 122-126: whether the line pushes a compile diagnostic, given
\* whether it is the header and whether compileRegex matched it.
CompilePushed(isHeader, started, inputsLength, matched) ==
    /\ ~isHeader
    /\ CompileApplies(started, inputsLength)
    /\ matched

\* Line 150 left out: the flag survives a failing line.
StartedKept(started) == started

\* Line 150: the flag after a line on which the compile pattern failed.
StartedAfterMiss(started) == FALSE

\* Lines 122-152: compileStarted after the line.
StartedAfter(isHeader, started, inputsLength, matched) ==
    IF isHeader THEN TRUE
    ELSE IF CompileApplies(started, inputsLength)
         THEN (IF matched THEN started ELSE StartedAfterMiss(started))
         ELSE started

\* Array.prototype.unshift in the place of push.
Unshift(array, element) == <<element>> \o array

\* Array.prototype.push.
Push(array, element) == Append(array, element)

\* Lines 325-334: the Shader that lint builds for a file.
ShaderOf(file, content) ==
    LET shaderFileTokens == extractShaderFilenameTokens(file)
    IN  [name |-> shaderFileTokens.outFilename,
         fullFilename |-> file,
         type |-> shaderFileTokens.baseShaderType,
         contents |-> content]

\* The shaders submitted: a.vert, b.frag and ba.vert, whose name ends with
\* the first one's.
ShaderPool ==
    {ShaderOf(f, Str("void main() {}")) : f \in {Str("/p/a.vert"), Str("/p/b.fs.glsl"), Str("/p/ba.vert")}}

\* The lines of the validator's output: the headers of a.vert and ba.vert
\* (none of b.frag), a compile diagnostic, one that ends with a.vert and
\* has an unknown severity word and zeros, a link diagnostic of the vertex
\* stage that ends with a.vert, one of the fragment stage, and the summary
\* line, which matches no pattern.
LinePool ==
    {Str("a.vert"),
     Str("ba.vert"),
     Str("ERROR: 3:9007199254740994: x"),
     Str("NOTICE: 0:0:  a.vert"),
     Str("Warning: Linking vertex stage: a.vert"),
     Str("INFO: Linking fragment stage: no main "),
     Str("ERROR: 1 compilation errors.")}

\* helpers.generateRange(editor, 0): the first row of the editor.
RangePool == {<<<<Zero, Zero>>, <<Zero, Zero>>>>, <<<<Zero, Zero>>, <<Zero, Num(13)>>>>}

SeqsUpTo(S, lo, hi) == UNION {[1..n -> S] : n \in lo..hi}

OutputPool == {Str("")} \cup {Join(ls, EOL) : ls \in SeqsUpTo(LinePool, 1, MaxLines)}

NotClassifying ==
    /\ shaderFilename = Str("")
    /\ tokens = NoTokens

\* The validator has written its output; parse has not been called.
Init ==
    /\ pc = "call"
    /\ output \in OutputPool
    /\ inputs = <<>>
    /\ firstRowRange = <<<<Zero, Zero>>, <<Zero, Zero>>>>
    /\ lines = <<>>
    /\ si = 0
    /\ li = 0
    /\ compileStarted = FALSE
    /\ toReturn = <<>>
    /\ origin = <<>>
    /\ NotClassifying

\* Lines 109-115: parseGlslValidatorResponse is called with the shaders and
\* the range; toReturn is empty.  lines is output.split(os.EOL), which line
\* 121 evaluates again for every shader, with the same result.
Call ==
    /\ pc = "call"
    /\ lines' = Split(output, EOL)
    /\ \E shaders \in SeqsUpTo(ShaderPool, 0, MaxShaders), range \in RangePool :
           /\ inputs' = shaders
           /\ firstRowRange' = range
    /\ pc' = "scan"
    /\ si' = 0
    /\ li' = 0
    /\ toReturn' = <<>>
    /\ UNCHANGED <<output, compileStarted, origin, shaderFilename, tokens>>

\* Lines 117-121: forEach enters the next shader.
NextShader ==
    /\ pc = "scan"
    /\ si = 0 \/ li = Len(lines)
    /\ si < Len(inputs)
    /\ si' = si + 1
    /\ compileStarted' = FALSE
    /\ li' = 0
    /\ UNCHANGED <<pc, inputs, output, firstRowRange, lines, toReturn, origin,
                   shaderFilename, tokens>>

\* Lines 121-167: the callback of the inner forEach on one line.
ScanLine ==
    /\ pc = "scan"
    /\ si >= 1
    /\ li < Len(lines)
    /\ LET shader == inputs[si]
           typeName == shader.type.name
           line == lines[li + 1]
           isHeader == IsHeader(line, shader)
           match == compileRegex(line)
           pushed == CompilePushed(isHeader, compileStarted, Len(inputs), match.ok)
           afterCompile ==
               IF pushed THEN Push(toReturn, CompileResult(shader, match)) ELSE toReturn
           originAfterCompile ==
               IF pushed
               THEN Push(origin, [shader |-> si, line |-> li + 1, kind |-> "compile"])
               ELSE origin
           linkMatch == linkRegex(line, typeName)
       IN  /\ compileStarted' =
                  StartedAfter(isHeader, compileStarted, Len(inputs), match.ok)
           /\ toReturn' =
                  IF linkMatch.ok
                  THEN Push(afterCompile, LinkResult(shader, linkMatch, firstRowRange))
                  ELSE afterCompile
           /\ origin' =
                  IF linkMatch.ok
                  THEN Push(originAfterCompile,
                            [shader |-> si, line |-> li + 1, kind |-> "link"])
                  ELSE originAfterCompile
    /\ li' = li + 1
    /\ UNCHANGED <<pc, inputs, output, firstRowRange, lines, si,
                   shaderFilename, tokens>>

\* Line 169: resolve(toReturn).
Resolve ==
    /\ pc = "scan"
    /\ si = 0 \/ li = Len(lines)
    /\ si = Len(inputs)
    /\ pc' = "resolved"
    /\ UNCHANGED <<parseVars, shaderFilename, tokens>>

Next == Call \/ NextShader \/ ScanLine \/ Resolve

Spec == Init /\ [][Next]_vars

(***************************************************************************)
(* Vocabulary of the properties of parse.                                  *)
(***************************************************************************)
\* The diagnostics that the scan of shader s pushed on line l.
CompileDiags(s, l) ==
    {k \in DOMAIN origin : origin[k] = [shader |-> s, line |-> l, kind |-> "compile"]}

LinkDiags(s, l) ==
    {k \in DOMAIN origin : origin[k] = [shader |-> s, line |-> l, kind |-> "link"]}

\* Line l ends with the canonical name of shader s.
HeaderOf(s, l) == EndsWith(lines[l], inputs[s].name)

\* The matches of the patterns on the lines of the pool, computed once.
KnownLines == LinePool \cup {Str("")}

CompileMatches == [x \in KnownLines |-> compileRegex(x)]

LinkLines ==
    [n \in {t.type.name : t \in ShaderPool} |->
        {x \in KnownLines : linkRegex(x, n).ok}]

\* compileRegex on a line of the output.
CompileMatch(line) ==
    IF line \in KnownLines THEN CompileMatches[line] ELSE compileRegex(line)

MatchesCompile(l) == CompileMatch(lines[l]).ok

MatchesLink(s, l) ==
    IF lines[l] \in KnownLines
    THEN lines[l] \in LinkLines[inputs[s].type.name]
    ELSE linkRegex(lines[l], inputs[s].type.name).ok

\* After line l of the scan of s: some header at or before l is followed,
\* up to l, only by headers and lines matching the compile pattern.
InSection(s, l) ==
    \E j \in 1..l :
        /\ HeaderOf(s, j)
        /\ \A m \in (j + 1)..l : HeaderOf(s, m) \/ MatchesCompile(m)

\* The text of the line before its first ":".
SeverityWord(line) == SubSeq(line, 1, IndexOf(line, Colon, 1) - 1)

EqualsIgnoringCase(a, b) ==
    /\ Len(a) = Len(b)
    /\ \A i \in 1..Len(a) :
           \/ a[i] = b[i]
           \/ a[i] \in UpperLetters /\ a[i] + 32 = b[i]
           \/ b[i] \in UpperLetters /\ b[i] + 32 = a[i]

Severities == {Str("error"), Str("warning"), Str("info")}

\* The severities a diagnostic of the line may have: the ones its word
\* equals whatever the case, warning when there is none.
SeveritiesOf(line) ==
    LET known == {v \in Severities : EqualsIgnoringCase(SeverityWord(line), v)}
    IN  IF known # {} THEN known ELSE {Warning}

KnownSeverities == [x \in KnownLines |-> SeveritiesOf(x)]

ExpectedSeverities(line) ==
    IF line \in KnownLines THEN KnownSeverities[line] ELSE SeveritiesOf(line)

\* max(n - 1, 0) of a number n that is not negative.
ClampedPred(n) == IF n = Zero THEN Zero ELSE MinusOne(n)

\* Groups 3 and 2 of the compile pattern on the line, as numbers, and the
\* row and column the claim gives for them.
PointOf(line) ==
    LET match == compileRegex(line)
    IN  [group3 |-> parseInt(match.g3), group2 |-> parseInt(match.g2),
         row |-> ClampedPred(parseInt(match.g3)),
         column |-> ClampedPred(parseInt(match.g2))]

KnownPoints == [x \in {k \in KnownLines : CompileMatches[k].ok} |-> PointOf(x)]

ExpectedPoint(line) ==
    IF line \in DOMAIN KnownPoints THEN KnownPoints[line] ELSE PointOf(line)

\* A number is zero or more when it is Infinity or an integer written with
\* the digits 0..9.
AtLeastZero(n) == n = Infinity \/ (Len(n) >= 1 /\ \A i \in 1..Len(n) : n[i] \in 0..9)

\* m is the integer before n, or 0 for n = 0, when n is below 2^53.
IsPredOf(m, n) ==
    (n # Infinity /\ Less(n, TwoTo53)) =>
        IF n = Zero THEN m = Zero ELSE (m # Infinity /\ Succ(m) = n)

(***************************************************************************)
(* C1.  With two or more shaders, a compile diagnostic of shader S comes   *)
(* only from a line that some earlier line ending with S's canonical name  *)
(* precedes: a line with no header of S before it yields none.             *)
(***************************************************************************)
C1_NoCompileBeforeHeader ==
    Len(inputs) >= 2 =>
        \A k \in DOMAIN origin :
            origin[k].kind = "compile" =>
                \E j \in 1..(origin[k].line - 1) : HeaderOf(origin[k].shader, j)

\* A batch of two whose first line matches the compile pattern, is no
\* header of the first shader, and was skipped; a later line was reported.
C1_Witness ==
    /\ pc = "resolved"
    /\ Len(inputs) = 2
    /\ Len(lines) = 3
    /\ MatchesCompile(1) /\ ~HeaderOf(1, 1) /\ CompileDiags(1, 1) = {}
    /\ CompileDiags(1, 3) # {}

(***************************************************************************)
(* C2.  With exactly one shader, every line matching the compile pattern   *)
(* yields exactly one compile diagnostic, so the compile diagnostics are   *)
(* as many as the matching lines.                                          *)
(***************************************************************************)
C2_SingleShaderEveryCompileLine ==
    (pc = "resolved" /\ Len(inputs) = 1) =>
        /\ \A l \in DOMAIN lines :
               MatchesCompile(l) => Cardinality(CompileDiags(1, l)) = 1
        /\ Cardinality({k \in DOMAIN origin : origin[k].kind = "compile"})
               = Cardinality({l \in DOMAIN lines : MatchesCompile(l)})

(***************************************************************************)
(* C3.  Every line matching the link pattern of shader S's stage yields    *)
(* exactly one link diagnostic of S, at firstRowRange and in S's file,     *)
(* whatever the section flag, the header test and the batch size.          *)
(***************************************************************************)
C3_LinkAlwaysEmitted ==
    pc = "resolved" =>
        \A s \in DOMAIN inputs, l \in DOMAIN lines :
            /\ MatchesLink(s, l) =>
                   /\ Cardinality(LinkDiags(s, l)) = 1
                   /\ \A k \in LinkDiags(s, l) :
                          /\ toReturn[k].position = firstRowRange
                          /\ toReturn[k].file = inputs[s].fullFilename
            /\ ~MatchesLink(s, l) => LinkDiags(s, l) = {}

\* A batch of two: a link line that is the header of the first shader is
\* reported for it, and for the second shader, whose section never opened.
C3_Witness ==
    /\ pc = "resolved"
    /\ Len(inputs) = 2
    /\ \E l \in DOMAIN lines :
           /\ MatchesLink(1, l) /\ HeaderOf(1, l) /\ LinkDiags(1, l) # {}
           /\ MatchesLink(2, l) /\ ~InSection(2, l) /\ LinkDiags(2, l) # {}
    /\ firstRowRange = <<<<Zero, Zero>>, <<Zero, Num(13)>>>>

(***************************************************************************)
(* C4.  A compile diagnostic is the single point (max(group 3 - 1, 0),     *)
(* max(group 2 - 1, 0)): group 3 is the line, group 2 the column, and no   *)
(* number is negative.  The groups are read and the subtraction is done    *)
(* in the numbers of the program: up to 2^53 the result is the integer     *)
(* before the group.                                                       *)
(***************************************************************************)
C4_CompilePointClamped ==
    \A k \in DOMAIN origin :
        origin[k].kind = "compile" =>
            LET point == ExpectedPoint(lines[origin[k].line])
                position == toReturn[k].position
            IN  /\ position = <<<<point.row, point.column>>, <<point.row, point.column>>>>
                /\ \A i \in 1..2, j \in 1..2 : AtLeastZero(position[i][j])
                /\ IsPredOf(position[1][1], point.group3)
                /\ IsPredOf(position[1][2], point.group2)

\* Both a diagnostic of "3:9007199254740994" (column 2; the row is the
\* double nearest to 9007199254740993) and one of "0:0" (clamped).
C4_Witness ==
    /\ pc = "resolved"
    /\ \E k \in DOMAIN toReturn :
           /\ origin[k].kind = "compile"
           /\ CompileMatch(lines[origin[k].line]).g3 = Str("9007199254740994")
           /\ toReturn[k].position[1] = <<<<9, 0, 0, 7, 1, 9, 9, 2, 5, 4, 7, 4, 0, 9, 9, 2>>, Num(2)>>
           /\ toReturn[k].position[2] = toReturn[k].position[1]
    /\ \E k \in DOMAIN toReturn :
           /\ origin[k].kind = "compile"
           /\ CompileMatch(lines[origin[k].line]).g3 = Str("0")
           /\ toReturn[k].position = <<<<Zero, Zero>>, <<Zero, Zero>>>>

(***************************************************************************)
(* C5.  toReturn is in discovery order: the diagnostics of an earlier      *)
(* shader precede those of a later one and, within a shader, those of an   *)
(* earlier line precede those of a later line.                             *)
(***************************************************************************)
C5_DiscoveryOrder ==
    /\ Len(origin) = Len(toReturn)
    /\ \A k \in DOMAIN origin : toReturn[k].file = inputs[origin[k].shader].fullFilename
    /\ \A i \in DOMAIN origin, j \in DOMAIN origin :
           (\/ origin[i].shader < origin[j].shader
            \/ /\ origin[i].shader = origin[j].shader
               /\ origin[i].line < origin[j].line)
               => i < j

\* Two shaders, each with diagnostics from two different lines.
C5_Witness ==
    /\ pc = "resolved"
    /\ Len(inputs) = 2
    /\ \A s \in 1..2 :
           \E i \in DOMAIN origin, j \in DOMAIN origin :
               /\ origin[i].shader = s /\ origin[j].shader = s
               /\ origin[i].line < origin[j].line

(***************************************************************************)
(* C8.  The severity of every diagnostic is error, warning or info: the    *)
(* lower-cased severity word of its line when the word is one of the       *)
(* three whatever its case, and warning for any other word; a line with    *)
(* an unknown word is reported like any other.                             *)
(***************************************************************************)
C8_Severity ==
    /\ \A k \in DOMAIN origin :
           /\ toReturn[k].severity \in Severities
           /\ toReturn[k].severity \in ExpectedSeverities(lines[origin[k].line])
    /\ pc = "resolved" =>
           \A s \in DOMAIN inputs, l \in DOMAIN lines :
               /\ MatchesLink(s, l) => LinkDiags(s, l) # {}
               /\ (MatchesCompile(l) /\ ~HeaderOf(s, l) /\ Len(inputs) = 1)
                      => CompileDiags(s, l) # {}

\* Diagnostics of the words NOTICE (unknown), ERROR and INFO.
C8_Witness ==
    /\ pc = "resolved"
    /\ \A w \in {<<Str("NOTICE"), Str("warning")>>, <<Str("ERROR"), Str("error")>>,
                  <<Str("INFO"), Str("info")>>} :
           \E k \in DOMAIN origin :
               /\ SeverityWord(lines[origin[k].line]) = w[1]
               /\ toReturn[k].severity = w[2]

(***************************************************************************)
(* C9.  The section flag is a two-state machine, Idle at the start of a    *)
(* shader's scan: a header line sets it, a line that is no header and      *)
(* fails the compile pattern clears it, a matching line keeps it.  So in   *)
(* a batch of two or more, a line matching the compile pattern is          *)
(* reported for a shader exactly when it is not its header and the flag    *)
(* is set: after a failing line, nothing until the next header.            *)
(***************************************************************************)
C9_SectionFlag ==
    /\ (pc = "scan" /\ si >= 1) => compileStarted = InSection(si, li)
    /\ (pc = "resolved" /\ Len(inputs) >= 2) =>
           \A s \in DOMAIN inputs, l \in DOMAIN lines :
               CompileDiags(s, l) # {}
                   <=> (MatchesCompile(l) /\ ~HeaderOf(s, l) /\ InSection(s, l - 1))

\* Header, failing line, matching line: the third line is not reported;
\* the second shader has no header at all.
C9_Witness ==
    /\ pc = "resolved"
    /\ Len(inputs) = 2
    /\ Len(lines) = 3
    /\ HeaderOf(1, 1)
    /\ ~HeaderOf(1, 2) /\ ~MatchesCompile(2)
    /\ ~HeaderOf(1, 3) /\ MatchesCompile(3)
    /\ CompileDiags(1, 3) = {}

(***************************************************************************)
(* C10.  With two or more shaders, a line matching the compile pattern is  *)
(* reported for at most one of them.                                       *)
(***************************************************************************)
C10_AtMostOneShader ==
    Len(inputs) >= 2 =>
        \A l \in DOMAIN lines :
            Cardinality({s \in DOMAIN inputs : CompileDiags(s, l) # {}}) <= 1

(***************************************************************************)
(* Vocabulary of the properties of classify.                               *)
(***************************************************************************)
\* The codes c for which name is <base><separator><c><suffix>, with a
\* separator of seps and a code of codes; the base is any text, or, with
\* oneLine, any text without a line terminator.
ConventionCodes(name, seps, codes, suffix, oneLine) ==
    {c \in codes :
        \E i \in 1..Len(name) :
            /\ Char(name, i) \in seps
            /\ SubSeq(name, i + 1, Len(name)) = c \o suffix
            /\ oneLine => \A j \in 1..(i - 1) : name[j] \notin {10, 13, 8232, 8233}}

\* The five conventions in priority order, as the specification lists
\* them: the separator is "." and the base is any text.
ListedConventions ==
    << [seps |-> {Unit(".")}, codes |-> Char1, suffix |-> Str(".glsl"),
        field |-> "char1", oneLine |-> FALSE],
       [seps |-> {Unit(".")}, codes |-> Char2, suffix |-> Str(".glsl"),
        field |-> "char2", oneLine |-> FALSE],
       [seps |-> {Unit(".")}, codes |-> Char1, suffix |-> Str("sh"),
        field |-> "char1", oneLine |-> FALSE],
       [seps |-> {Unit(".")}, codes |-> Char2, suffix |-> Str(""),
        field |-> "char2", oneLine |-> FALSE],
       [seps |-> {Unit(".")}, codes |-> Char4, suffix |-> Str(""),
        field |-> "char4", oneLine |-> FALSE] >>

\* The same, with "_" also a separator before a code followed by .glsl and
\* with a base that holds no line terminator.
SourceConventions ==
    [n \in DOMAIN ListedConventions |->
        [ListedConventions[n] EXCEPT
            !.seps = IF n <= 2 THEN {Unit("."), Unit("_")} ELSE @,
            !.oneLine = TRUE]]

CodesAt(conventions, n, name) ==
    ConventionCodes(name, conventions[n].seps, conventions[n].codes,
                    conventions[n].suffix, conventions[n].oneLine)

\* classify on the file name under the conventions: it fails exactly when
\* none matches, and otherwise returns one of the six stages, whose field
\* of the first matching convention is the code that convention captured.
ClassifiedBy(conventions) ==
    LET name == basename(shaderFilename)
        matching == {n \in DOMAIN conventions : CodesAt(conventions, n, name) # {}}
        first == CHOOSE n \in matching : \A m \in matching : n <= m
    IN  /\ tokens.thrown <=> matching = {}
        /\ ~tokens.thrown =>
               /\ \E t \in DOMAIN shaderTypes : shaderTypes[t] = tokens.baseShaderType
               /\ conventions[first].field \in DOMAIN tokens.baseShaderType
               /\ tokens.baseShaderType[conventions[first].field]
                      \in CodesAt(conventions, first, name)

(***************************************************************************)
(* C6, as claimed.  classify fails exactly when the file name matches      *)
(* none of the five conventions as listed, with "." before the code.       *)
(***************************************************************************)
C6_AsListed == pc \in {"tokens", "thrown"} => ClassifiedBy(ListedConventions)

(***************************************************************************)
(* C6, amended.  The same with the separator of conventions 1 and 2 being  *)
(* "." or "_" and the base of every convention holding no line terminator  *)
(* (U+000A, U+000D, U+2028, U+2029): a_v.glsl and a_fs.glsl are            *)
(* classified, and a name whose base holds a line terminator is not.       *)
(***************************************************************************)
C6_WithUnderscore == pc \in {"tokens", "thrown"} => ClassifiedBy(SourceConventions)

\* A name whose code follows "_" has been classified as a stage.
C6_Witness ==
    /\ pc = "tokens"
    /\ basename(shaderFilename) = Str("a_fs.glsl")
    /\ tokens.baseShaderType.name = Str("fragment")

(***************************************************************************)
(* C7, as claimed.  The canonical name is the base with exactly one        *)
(* trailing ".", then the four-letter code: it ends with "." and the       *)
(* code, and the character before that "." is no ".".                      *)
(***************************************************************************)
C7_ExactlyOneDot ==
    pc = "tokens" =>
        LET ending == Str(".") \o tokens.baseShaderType.char4
            out == tokens.outFilename
            stem == SubSeq(out, 1, Len(out) - Len(ending))
        IN  /\ EndsWith(out, ending)
            /\ ~EndsWith(stem, Str("."))
            /\ \/ tokens.baseFilename = stem
               \/ tokens.baseFilename = stem \o Str(".")

(***************************************************************************)
(* C7, amended.  The base is the text of the file name before the stage    *)
(* code; the canonical name is the base, a "." added only when the base    *)
(* does not end with one, then the four-letter code: dots that the base    *)
(* already ends with are all kept.                                         *)
(***************************************************************************)
C7_DotEnsured ==
    pc = "tokens" =>
        LET type == tokens.baseShaderType
            base == tokens.baseFilename
            out == tokens.outFilename
            codes == {type[f] : f \in DOMAIN type \ {"name"}}
        IN  /\ \E c \in codes, suffix \in {Str(""), Str(".glsl"), Str("sh")} :
                   basename(shaderFilename) = base \o c \o suffix
            /\ EndsWith(out, Str(".") \o type.char4)
            /\ EndsWith(base, Str(".")) => out = base \o type.char4
            /\ ~EndsWith(base, Str(".")) => out = base \o Str(".") \o type.char4

\* A base that ends with two dots keeps both.
C7_Witness ==
    /\ pc = "tokens"
    /\ shaderFilename = Str("/p/a..vs")
    /\ tokens.baseFilename = Str("a..")
    /\ tokens.outFilename = Str("a..vert")

====
